---- MODULE Spec2Model ----
(***************************************************************************)
(* Model of p2pmidi's peer connection client, src/p2p/client.rs.           *)
(*                                                                         *)
(* start_client is a straight-line function with three event loops over a  *)
(* libp2p swarm.  The client's own state (its position, the two handshake  *)
(* flags, the requests it has handed to the swarm, the swarm's external    *)
(* addresses) is translated from the source.  The swarm and the network    *)
(* behind it are the environment: swarm.next() yields, one at a time, an   *)
(* event that the connections, listeners and requests existing at that     *)
(* moment can produce (a connection's events follow its establishment, an  *)
(* inbound connection is announced by IncomingConnection, a relay answer   *)
(* follows a request); which of the possible events comes next, and        *)
(* whether one comes at all, is left open.                                 *)
(***************************************************************************)
EXTENDS Integers, Sequences, FiniteSets, TLC

VARIABLES
    pc,                        \* position of start_client
    mode,                      \* argument: Mode::Dial or Mode::Listen
    secret_key_seed,           \* argument
    relay_address_str,         \* argument
    relay_port,                \* argument
    remote_peer_id_u8,         \* argument
    use_ipv6,                  \* argument
    relay_address,             \* local: the parsed Multiaddr
    remote_peer_id,            \* local
    local_peer_id,             \* local
    learned_observed_addr,     \* local flag of the round-trip loop
    told_relay_observed_addr,  \* local flag of the round-trip loop
    requests,                  \* listen_on / dial calls made on the swarm, in order
    external_addresses,        \* the swarm's external addresses
    conn,                      \* network: state of the connection with each peer
    reservation,               \* network: state of the relay reservation
    lastEvent,                 \* history: the event handled last
    lastPhase,                 \* history: the loop that handled it
    lastPrinted,               \* history: whether handling it printed a line
    sentTo,                    \* history: peers whose identify Sent the round-trip loop handled
    receivedFrom,              \* history: peers whose identify Received the round-trip loop handled
    app,                       \* GUI: the App
    lastMessage,               \* GUI history: the message update handled last
    program_args,              \* main: the flags get_program_config returned
    started,                   \* main history: the roles main has started
    mode_input,                \* Mode::from_str: its argument
    mode_result                \* Mode::from_str: its result

vars == <<pc, mode, secret_key_seed, relay_address_str, relay_port,
          remote_peer_id_u8, use_ipv6, relay_address, remote_peer_id,
          local_peer_id, learned_observed_addr, told_relay_observed_addr,
          requests, external_addresses, conn, reservation,
          lastEvent, lastPhase, lastPrinted, sentTo, receivedFrom,
          app, lastMessage, program_args, started, mode_input, mode_result>>

\* what main holds, untouched by the roles it starts
main_state == <<program_args, started>>

\* the argument and the result of Mode::from_str
parse == <<mode_input, mode_result>>

\* the state start_client does not touch
aux == <<app, lastMessage, main_state, parse>>

args == <<mode, secret_key_seed, relay_address_str, relay_port,
          remote_peer_id_u8, use_ipv6>>

locals == <<relay_address, remote_peer_id, local_peer_id>>

flags == <<learned_observed_addr, told_relay_observed_addr>>

net == <<conn, reservation>>

history == <<lastEvent, lastPhase, lastPrinted, sentTo, receivedFrom>>

(***************************************************************************)
(* Bounds                                                                  *)
(***************************************************************************)
\* peers, besides the relay and the dialed target, that may connect to this node
NumOthers == 1

\* device addresses the GUI's list holds at most
MaxAddresses == 2

\* blanks put before and after a word given to Mode::from_str
MaxPadding == 1

(***************************************************************************)
(* Constants of the program                                                *)
(***************************************************************************)
RELAY_ADDRESS == "p2pmidirelay.fly.dev"

RELAY_PORT == 8040

DEFAULT_PORT == 8040

USE_IPV6 == FALSE

Dial == "Dial"

Listen == "Listen"

Mode == {Dial, Listen}

(***************************************************************************)
(* Input sets                                                              *)
(***************************************************************************)
Seeds == {42, 44}

\* <<secret_key_seed, remote_peer_id_u8>>: the pair main passes, and the pair of its remote
SeedPairs == {<<44, 42>>, <<42, 44>>}

\* an IPv4 literal, an IPv6 literal and the default host name
Hosts == {"203.0.113.5", "2001:db8::5", RELAY_ADDRESS}

(***************************************************************************)
(* Multiaddr: a sequence of protocol components                            *)
(***************************************************************************)
NoPeerId == [public_key_of |-> <<>>]

Component(proto, host, port, peer) ==
    [proto |-> proto, host |-> host, port |-> port, peer |-> peer]

Ip(proto, host) == Component(proto, host, 0, NoPeerId)

Tcp(port) == Component("tcp", "", port, NoPeerId)

Udp(port) == Component("udp", "", port, NoPeerId)

QuicV1 == Component("quic-v1", "", 0, NoPeerId)

P2pCircuit == Component("p2p-circuit", "", 0, NoPeerId)

P2p(peer) == Component("p2p", "", 0, peer)

\* Multiaddr::with
With(addr, component) == Append(addr, component)

\* the text form of the address family an "ip4" / "ip6" component accepts
HostFamily(host) ==
    CASE host = "203.0.113.5" -> "ip4"
      [] host = "2001:db8::5" -> "ip6"
      [] OTHER -> "dns"

ParseError == <<Component("error", "", 0, NoPeerId)>>

\* Multiaddr::from_str of "/<protocol>/<host>/tcp/<port>": the ip4 and ip6
\* components take an address literal of their own family and nothing else
MultiaddrFromStr(protocol, host, port) ==
    IF HostFamily(host) = protocol
    THEN <<Ip(protocol, host), Tcp(port)>>
    ELSE ParseError

\* line 49
ProtocolOf(ipv6) == IF ipv6 THEN "ip6" ELSE "ip4"

(***************************************************************************)
(* Identities                                                              *)
(***************************************************************************)
\* mutant of the key material: the seed byte is truncated to seven bits
generate_ed25519_7bit(seed) == [i \in 1..32 |-> IF i = 1 THEN seed % 128 ELSE 0]

\* the 32 bytes of key material: the seed, then zeros
generate_ed25519(seed) == [i \in 1..32 |-> IF i = 1 THEN seed ELSE 0]

\* PeerId::from(keypair.public()): a digest of the public key of the secret
\* bytes, kept symbolic as a tagged copy of the bytes it is computed from
PeerIdFrom(keypair) == [public_key_of |-> keypair]

\* a u8
SeedBytes == 0..255

\* no GUI running
NoApp == [running |-> FALSE]

\* before main has read its flags
NoArgs == [parsed |-> FALSE]

\* before Mode::from_str has returned
NoResult == [returned |-> FALSE]

\* main and Mode::from_str are not part of the run
MainUnused ==
    /\ program_args = NoArgs
    /\ started = {}
    /\ mode_input = <<>>
    /\ mode_result = NoResult

(***************************************************************************)
(* The swarm's events                                                      *)
(***************************************************************************)
RelayPeer == <<"relay", 0>>

TargetPeer == <<"target", 0>>

Others == {<<"other", i>> : i \in 1..NumOthers}

NoPeer == <<"none", 0>>

Peers == {RelayPeer, TargetPeer} \cup Others

NoAddr == <<>>

Event(kind, peer, addr) == [kind |-> kind, peer |-> peer, addr |-> addr]

NoEvent == Event("none", NoPeer, NoAddr)

\* addresses a remote peer may report having observed this node at
ObservedAddrs ==
    { <<Ip("ip4", "198.51.100.7"), Tcp(4001)>>,
      <<Ip("ip4", "198.51.100.7"), Udp(4001), QuicV1>> }

Request(op, addr) == [op |-> op, addr |-> addr]

ListenersExist == \E i \in 1..Len(requests) : requests[i].op = "listen_on"

\* connection states in which the connection with a peer is open
Open == {"established", "relayed", "upgrading", "direct", "relayed_only"}

\* events of the listeners: they need a listener and nothing else
ListenerEvents ==
    IF ListenersExist
    THEN {Event(k, NoPeer, NoAddr) :
            k \in {"NewListenAddr", "ListenerError", "ListenerClosed"}}
    ELSE {}

\* Event::Ping(_): a ping::Event with result Ok(rtt), Err(Failure::Timeout)
\* or another Err(Failure)
PingEvents == {"Ping", "PingTimeout", "PingFailure"}

\* events of the behaviours on an open connection with peer p
BehaviourEvents(p) ==
    {Event(k, p, NoAddr) : k \in PingEvents \cup {"IdentifySent", "IdentifyError"}}
    \cup {Event("IdentifyReceived", p, a) : a \in ObservedAddrs}

\* events the connection with peer p can produce next
PeerEvents(p) ==
    CASE conn[p] = "none" ->
            IF p \in Others /\ ListenersExist
            THEN {Event("IncomingConnection", p, NoAddr)}
                 \cup (IF reservation = "accepted"
                       THEN {Event("InboundCircuitEstablished", p, NoAddr)}
                       ELSE {})
            ELSE {}
      [] conn[p] = "requested" -> {Event("Dialing", p, NoAddr)}
      [] conn[p] = "dialing" ->
            {Event("OutgoingConnectionError", p, NoAddr)}
            \cup (IF p = TargetPeer
                  THEN {Event("OutboundCircuitEstablished", p, NoAddr),
                        Event("OutboundCircuitReqFailed", p, NoAddr)}
                  ELSE {Event("ConnectionEstablished", p, NoAddr)})
      [] conn[p] = "circuit_out" ->
            {Event("ConnectionEstablished", p, NoAddr),
             Event("OutgoingConnectionError", p, NoAddr)}
      [] conn[p] = "circuit_refused" -> {Event("OutgoingConnectionError", p, NoAddr)}
      [] conn[p] = "circuit_in" -> {Event("IncomingConnection", p, NoAddr)}
      [] conn[p] \in {"incoming", "incoming_relayed"} ->
            {Event("ConnectionEstablished", p, NoAddr),
             Event("IncomingConnectionError", p, NoAddr)}
      [] conn[p] \in Open ->
            BehaviourEvents(p)
            \cup {Event("ConnectionClosed", p, NoAddr)}
            \cup (CASE conn[p] = "relayed" ->
                          {Event("DcutrInitiated", p, NoAddr)}
                    [] conn[p] = "upgrading" ->
                          {Event("DcutrSucceeded", p, NoAddr),
                           Event("DcutrFailed", p, NoAddr)}
                    [] OTHER -> {})
      [] OTHER -> {}

\* events of the reservation on the relay
ReservationEvents ==
    CASE reservation = "requested" ->
            {Event("ReservationReqFailed", RelayPeer, NoAddr)}
            \cup (IF conn[RelayPeer] \in Open
                  THEN {Event("ReservationReqAccepted", RelayPeer, NoAddr)}
                  ELSE {})
      [] reservation = "accepted" ->
            IF conn[RelayPeer] \in Open
            THEN {Event("ReservationReqAccepted", RelayPeer, NoAddr)}
            ELSE {Event("ReservationReqFailed", RelayPeer, NoAddr)}
      [] OTHER -> {}

\* what swarm.next() can yield in the current state
SwarmEvents == ListenerEvents \cup UNION {PeerEvents(p) : p \in Peers} \cup ReservationEvents

\* the state of the connection with e.peer once e has been yielded
ConnAfter(e) ==
    LET c == conn[e.peer] IN
    CASE e.kind = "Dialing" -> "dialing"
      [] e.kind = "IncomingConnection" ->
            IF c = "circuit_in" THEN "incoming_relayed" ELSE "incoming"
      [] e.kind = "InboundCircuitEstablished" -> "circuit_in"
      [] e.kind = "OutboundCircuitEstablished" -> "circuit_out"
      [] e.kind = "OutboundCircuitReqFailed" -> "circuit_refused"
      [] e.kind = "ConnectionEstablished" ->
            IF c \in {"circuit_out", "incoming_relayed"} THEN "relayed" ELSE "established"
      [] e.kind = "OutgoingConnectionError" -> "failed"
      [] e.kind = "IncomingConnectionError" -> "none"
      [] e.kind = "ConnectionClosed" -> IF e.peer \in Others THEN "none" ELSE "closed"
      [] e.kind = "DcutrInitiated" -> "upgrading"
      [] e.kind = "DcutrSucceeded" -> "direct"
      [] e.kind = "DcutrFailed" -> "relayed_only"
      [] OTHER -> c

ReservationAfter(e) ==
    CASE e.kind = "ReservationReqAccepted" -> "accepted"
      [] e.kind = "ReservationReqFailed" -> "failed"
      [] OTHER -> reservation

\* swarm.next() yields e: the network moves on
Yield(e) ==
    /\ e \in SwarmEvents
    /\ conn' = IF e.peer \in Peers /\ e.kind \notin {"ReservationReqAccepted", "ReservationReqFailed"}
               THEN [conn EXCEPT ![e.peer] = ConnAfter(e)]
               ELSE conn
    /\ reservation' = ReservationAfter(e)

(***************************************************************************)
(* start_client: the handlers of its three loops                           *)
(***************************************************************************)
\* the match of the bind loop
BindHandle(e) ==
    IF e.kind = "NewListenAddr" THEN "continue" ELSE "panic"

\* mutants of the round-trip match: an inbound connection, or a closed
\* connection, is let through instead of aborting
RoundTripHandleAcceptsIncoming(e) ==
    CASE e.kind \in {"NewListenAddr", "Dialing", "ConnectionEstablished",
                     "IncomingConnection"} \cup PingEvents -> "continue"
      [] e.kind = "IdentifySent" -> "told"
      [] e.kind = "IdentifyReceived" -> "learned"
      [] OTHER -> "panic"

RoundTripHandleIgnoresClose(e) ==
    CASE e.kind \in {"NewListenAddr", "Dialing", "ConnectionEstablished",
                     "ConnectionClosed"} \cup PingEvents -> "continue"
      [] e.kind = "IdentifySent" -> "told"
      [] e.kind = "IdentifyReceived" -> "learned"
      [] OTHER -> "panic"

\* mutant of the round-trip match: the ping arm sets the told flag
RoundTripHandlePingTells(e) ==
    CASE e.kind \in {"NewListenAddr", "Dialing", "ConnectionEstablished"} -> "continue"
      [] e.kind \in {"IdentifySent"} \cup PingEvents -> "told"
      [] e.kind = "IdentifyReceived" -> "learned"
      [] OTHER -> "panic"

\* the match of the round-trip loop
RoundTripHandle(e) ==
    CASE e.kind \in {"NewListenAddr", "Dialing", "ConnectionEstablished"} \cup PingEvents ->
            "continue"
      [] e.kind = "IdentifySent" -> "told"
      [] e.kind = "IdentifyReceived" -> "learned"
      [] OTHER -> "panic"

\* mutant of the exit test: one flag is enough
HandshakeDoneEither(learned, told) == learned \/ told

\* the exit test of the round-trip loop
HandshakeDone(learned, told) == learned /\ told

RelayEvents ==
    {"ReservationReqAccepted", "ReservationReqFailed", "OutboundCircuitEstablished",
     "OutboundCircuitReqFailed", "InboundCircuitEstablished"}

DcutrEvents == {"DcutrInitiated", "DcutrSucceeded", "DcutrFailed"}

IdentifyEvents == {"IdentifySent", "IdentifyReceived", "IdentifyError"}

\* mutant of the assertion: the wrong mode is asserted
AssertModeDial(m) == m = Dial

\* the assertion of the steady-state loop
AssertMode(m) == m = Listen

\* mutant of the steady-state match: a failed hole punch aborts, as the
\* unexpected events of the two earlier loops do
SteadyHandleAbortsOnDcutrFailed(e, m) ==
    IF \/ e.kind = "ReservationReqAccepted" /\ ~AssertMode(m)
       \/ e.kind = "DcutrFailed"
    THEN "panic"
    ELSE "continue"

\* the match of the steady-state loop
SteadyHandle(e, m) ==
    IF e.kind = "ReservationReqAccepted" /\ ~AssertMode(m) THEN "panic" ELSE "continue"

\* the arms of the steady-state loop that print
SteadyPrints(e) ==
    e.kind \in {"NewListenAddr", "ConnectionEstablished", "OutgoingConnectionError"}
               \cup RelayEvents \cup DcutrEvents \cup IdentifyEvents

\* mutant of swarm.add_external_address: the address replaces the set
ReplaceExternalAddress(addresses, addr) == {addr}

\* swarm.add_external_address
AddExternalAddress(addresses, addr) == addresses \cup {addr}

\* mutant of the mode step: a reservation is requested in either mode
ModeRequestAlwaysListen(m, relay, remote) ==
    Request("listen_on", With(relay, P2pCircuit))

\* mutant of the mode step: the two arms are swapped
ModeRequestSwapped(m, relay, remote) ==
    IF m = Listen
    THEN Request("dial", With(With(relay, P2pCircuit), P2p(remote)))
    ELSE Request("listen_on", With(relay, P2pCircuit))

\* the request of the mode step
ModeRequest(m, relay, remote) ==
    IF m = Dial
    THEN Request("dial", With(With(relay, P2pCircuit), P2p(remote)))
    ELSE Request("listen_on", With(relay, P2pCircuit))

(***************************************************************************)
(* start_client: its steps                                                 *)
(***************************************************************************)
Init ==
    /\ pc = "start"
    /\ mode \in Mode
    /\ \E pair \in SeedPairs :
          /\ secret_key_seed = pair[1]
          /\ remote_peer_id_u8 = pair[2]
    /\ relay_address_str \in Hosts
    /\ relay_port = RELAY_PORT
    /\ use_ipv6 \in BOOLEAN
    /\ relay_address = NoAddr
    /\ remote_peer_id = NoPeerId
    /\ local_peer_id = NoPeerId
    /\ learned_observed_addr = FALSE
    /\ told_relay_observed_addr = FALSE
    /\ requests = <<>>
    /\ external_addresses = {}
    /\ conn = [p \in Peers |-> "none"]
    /\ reservation = "none"
    /\ lastEvent = NoEvent
    /\ lastPhase = "none"
    /\ lastPrinted = FALSE
    /\ sentTo = {}
    /\ receivedFrom = {}
    /\ app = NoApp
    /\ lastMessage = "none"
    /\ MainUnused

\* lines 49-55: the relay's Multiaddr, unwrapped
ParseRelayAddress ==
    /\ pc = "start"
    /\ LET parsed == MultiaddrFromStr(ProtocolOf(use_ipv6), relay_address_str, relay_port) IN
        /\ relay_address' = parsed
        /\ pc' = IF parsed = ParseError THEN "panicked" ELSE "build"
    /\ UNCHANGED aux
    /\ UNCHANGED <<args, remote_peer_id, local_peer_id, flags, requests,
                   external_addresses, net, history>>

\* lines 56-141: the identities, the transport and the swarm
BuildSwarm ==
    /\ pc = "build"
    /\ remote_peer_id' = PeerIdFrom(generate_ed25519(remote_peer_id_u8))
    /\ local_peer_id' = PeerIdFrom(generate_ed25519(secret_key_seed))
    /\ pc' = "listen_quic"
    /\ UNCHANGED aux
    /\ UNCHANGED <<args, relay_address, flags, requests, external_addresses, net, history>>

\* lines 143-145
ListenQuic ==
    /\ pc = "listen_quic"
    /\ requests' = Append(requests, Request("listen_on", <<Ip("ip4", "0.0.0.0"), Udp(0), QuicV1>>))
    /\ pc' = "listen_tcp"
    /\ UNCHANGED aux
    /\ UNCHANGED <<args, locals, flags, external_addresses, net, history>>

\* mutant of the second listen request: the relay is dialed before the bind wait
ListenTcpThenDial ==
    /\ pc = "listen_tcp"
    /\ requests' = requests \o <<Request("listen_on", <<Ip("ip4", "0.0.0.0"), Tcp(0)>>),
                                 Request("dial", relay_address)>>
    /\ conn' = [conn EXCEPT ![RelayPeer] = "requested"]
    /\ pc' = "bind"
    /\ UNCHANGED aux
    /\ UNCHANGED <<args, locals, flags, external_addresses, reservation, history>>

\* lines 146-148
ListenTcp ==
    /\ pc = "listen_tcp"
    /\ requests' = Append(requests, Request("listen_on", <<Ip("ip4", "0.0.0.0"), Tcp(0)>>))
    /\ pc' = "bind"
    /\ UNCHANGED aux
    /\ UNCHANGED <<args, locals, flags, external_addresses, net, history>>

\* lines 155-162: the bind loop takes an event
BindEvent ==
    /\ pc = "bind"
    /\ \E e \in SwarmEvents :
        /\ Yield(e)
        /\ lastEvent' = e
        /\ lastPhase' = "bind"
        /\ lastPrinted' = (BindHandle(e) = "continue")
        /\ pc' = IF BindHandle(e) = "panic" THEN "panicked" ELSE "bind"
    /\ UNCHANGED aux
    /\ UNCHANGED <<args, locals, flags, requests, external_addresses, sentTo, receivedFrom>>

\* lines 163-166: the delay fires
BindDelay ==
    /\ pc = "bind"
    /\ pc' = "dial_relay"
    /\ UNCHANGED aux
    /\ UNCHANGED <<args, locals, flags, requests, external_addresses, net, history>>

\* lines 173-176: the direct dial of the relay
DialRelay ==
    /\ pc = "dial_relay"
    /\ requests' = Append(requests, Request("dial", relay_address))
    /\ conn' = [conn EXCEPT ![RelayPeer] = "requested"]
    /\ learned_observed_addr' = FALSE
    /\ told_relay_observed_addr' = FALSE
    /\ pc' = "roundtrip"
    /\ UNCHANGED aux
    /\ UNCHANGED <<args, locals, external_addresses, reservation, history>>

\* lines 179-201: the round-trip loop takes an event
RoundTripEvent ==
    /\ pc = "roundtrip"
    /\ \E e \in SwarmEvents :
        LET h == RoundTripHandle(e)
            told == told_relay_observed_addr \/ h = "told"
            learned == learned_observed_addr \/ h = "learned"
        IN
        /\ Yield(e)
        /\ lastEvent' = e
        /\ lastPhase' = "roundtrip"
        /\ lastPrinted' = (h \in {"told", "learned"})
        /\ told_relay_observed_addr' = told
        /\ learned_observed_addr' = learned
        /\ external_addresses' =
              IF h = "learned"
              THEN AddExternalAddress(external_addresses, e.addr)
              ELSE external_addresses
        /\ sentTo' = IF h = "told" THEN sentTo \cup {e.peer} ELSE sentTo
        /\ receivedFrom' = IF h = "learned" THEN receivedFrom \cup {e.peer} ELSE receivedFrom
        /\ pc' = CASE h = "panic" -> "panicked"
                   [] HandshakeDone(learned, told) -> "mode"
                   [] OTHER -> "roundtrip"
    /\ UNCHANGED aux
    /\ UNCHANGED <<args, locals, requests>>

\* lines 205-220: the circuit dial or the reservation request
ModeStep ==
    /\ pc = "mode"
    /\ requests' = Append(requests, ModeRequest(mode, relay_address, remote_peer_id))
    /\ conn' = IF ModeRequest(mode, relay_address, remote_peer_id).op = "dial"
               THEN [conn EXCEPT ![TargetPeer] = "requested"]
               ELSE conn
    /\ reservation' = IF ModeRequest(mode, relay_address, remote_peer_id).op = "listen_on"
                      THEN "requested"
                      ELSE reservation
    /\ pc' = "steady"
    /\ UNCHANGED aux
    /\ UNCHANGED <<args, locals, flags, external_addresses, history>>

\* lines 224-253: the steady-state loop takes an event
SteadyEvent ==
    /\ pc = "steady"
    /\ \E e \in SwarmEvents :
        /\ Yield(e)
        /\ lastEvent' = e
        /\ lastPhase' = "steady"
        /\ lastPrinted' = (SteadyHandle(e, mode) = "continue" /\ SteadyPrints(e))
        /\ pc' = IF SteadyHandle(e, mode) = "panic" THEN "panicked" ELSE "steady"
    /\ UNCHANGED aux
    /\ UNCHANGED <<args, locals, flags, requests, external_addresses, sentTo, receivedFrom>>

Next ==
    \/ ParseRelayAddress
    \/ BuildSwarm
    \/ ListenQuic
    \/ ListenTcp
    \/ BindEvent
    \/ BindDelay
    \/ DialRelay
    \/ RoundTripEvent
    \/ ModeStep
    \/ SteadyEvent

Spec == Init /\ [][Next]_vars

(***************************************************************************)
(* Identity derivation over the whole seed space                           *)
(***************************************************************************)
\* start_client about to derive the two identities, for any two seed bytes
IdentityInit ==
    /\ pc = "build"
    /\ mode = Dial
    /\ secret_key_seed \in SeedBytes
    /\ remote_peer_id_u8 \in SeedBytes
    /\ relay_address_str = "203.0.113.5"
    /\ relay_port = RELAY_PORT
    /\ use_ipv6 = FALSE
    /\ relay_address = MultiaddrFromStr(ProtocolOf(FALSE), "203.0.113.5", RELAY_PORT)
    /\ remote_peer_id = NoPeerId
    /\ local_peer_id = NoPeerId
    /\ learned_observed_addr = FALSE
    /\ told_relay_observed_addr = FALSE
    /\ requests = <<>>
    /\ external_addresses = {}
    /\ conn = [p \in Peers |-> "none"]
    /\ reservation = "none"
    /\ lastEvent = NoEvent
    /\ lastPhase = "none"
    /\ lastPrinted = FALSE
    /\ sentTo = {}
    /\ receivedFrom = {}
    /\ app = NoApp
    /\ lastMessage = "none"
    /\ MainUnused

IdentitySpec == IdentityInit /\ [][BuildSwarm]_vars

(***************************************************************************)
(* The GUI: App and its update                                             *)
(***************************************************************************)
None == <<>>

Some(x) == <<x>>

\* texts typed into the address input
AddressTexts == {"", "10.0.0.2", "10.0.0.3"}

\* values the port inputs give
Ports == {DEFAULT_PORT, 9000}

\* what get_midi_list may return
MidiLists == {<<>>, <<"dev">>}

DefaultSettings ==
    [name |-> None, ip_addresses |-> <<>>, port |-> Some(DEFAULT_PORT),
     midi_device |-> None, relay_address |-> Some(RELAY_ADDRESS),
     relay_port |-> Some(RELAY_PORT), theme |-> None]

\* settings the application may be started with
StartSettings ==
    {DefaultSettings,
     [DefaultSettings EXCEPT !.ip_addresses = <<"10.0.0.2">>, !.theme = Some("Dark")]}

\* the settings the widgets of view put into SettingsChanged: the current
\* settings with the theme, the name, the MIDI device or the relay changed
ViewSettings(a) ==
    {[a.settings EXCEPT !.theme = Some(t)] : t \in {"Light", "Dark"}}
    \cup {[a.settings EXCEPT !.name = Some("ana")]}
    \cup {[a.settings EXCEPT !.midi_device = Some(a.midi_devices[i])] :
             i \in 1..Len(a.midi_devices)}
    \cup {[a.settings EXCEPT !.relay_address = Some("203.0.113.5")]}

\* iter().position(|s| s == &ip): the first index holding ip, 0 for None
Position(list, ip) ==
    IF \E i \in 1..Len(list) : list[i] = ip
    THEN CHOOSE i \in 1..Len(list) :
            list[i] = ip /\ \A j \in 1..(i - 1) : list[j] # ip
    ELSE 0

\* Vec::remove
Remove(list, idx) == SubSeq(list, 1, idx - 1) \o SubSeq(list, idx + 1, Len(list))

\* every variable of start_client, which the GUI never runs
ClientUnused ==
    /\ mode = Dial
    /\ secret_key_seed = 44
    /\ remote_peer_id_u8 = 42
    /\ relay_address_str = RELAY_ADDRESS
    /\ relay_port = RELAY_PORT
    /\ use_ipv6 = FALSE
    /\ relay_address = NoAddr
    /\ remote_peer_id = NoPeerId
    /\ local_peer_id = NoPeerId
    /\ learned_observed_addr = FALSE
    /\ told_relay_observed_addr = FALSE
    /\ requests = <<>>
    /\ external_addresses = {}
    /\ conn = [p \in Peers |-> "none"]
    /\ reservation = "none"
    /\ lastEvent = NoEvent
    /\ lastPhase = "none"
    /\ lastPrinted = FALSE
    /\ sentTo = {}
    /\ receivedFrom = {}

client == <<pc, args, locals, flags, requests, external_addresses, net, history>>

\* App::new
GuiInit ==
    /\ pc = "gui"
    /\ ClientUnused
    /\ \E st \in StartSettings, devices \in MidiLists :
          app = [initial_settings |-> st, settings |-> st, error_message |-> None,
                 info_message |-> None, midi_devices |-> devices, address_input |-> ""]
    /\ lastMessage = "none"
    /\ MainUnused

\* Message::Connect
Connect ==
    /\ pc = "gui"
    /\ lastMessage' = "Connect"
    /\ UNCHANGED <<client, app, main_state, parse>>

\* Message::ReloadMidiDevices
ReloadMidiDevices ==
    /\ pc = "gui"
    /\ \E devices \in MidiLists : app' = [app EXCEPT !.midi_devices = devices]
    /\ lastMessage' = "ReloadMidiDevices"
    /\ UNCHANGED <<client, main_state, parse>>

\* Message::SettingsChanged
SettingsChanged ==
    /\ pc = "gui"
    /\ \E settings \in ViewSettings(app) : app' = [app EXCEPT !.settings = settings]
    /\ lastMessage' = "SettingsChanged"
    /\ UNCHANGED <<client, main_state, parse>>

\* Message::RelayPortChanged
RelayPortChanged ==
    /\ pc = "gui"
    /\ \E i \in Ports : app' = [app EXCEPT !.settings.relay_port = Some(i)]
    /\ lastMessage' = "RelayPortChanged"
    /\ UNCHANGED <<client, main_state, parse>>

\* Message::RemoveAddress
RemoveAddress ==
    /\ pc = "gui"
    /\ \E ip \in AddressTexts :
          LET idx == Position(app.settings.ip_addresses, ip) IN
          app' = IF idx # 0
                 THEN [app EXCEPT !.settings.ip_addresses = Remove(@, idx)]
                 ELSE app
    /\ lastMessage' = "RemoveAddress"
    /\ UNCHANGED <<client, main_state, parse>>

\* Message::AddAddress: the input is cleared, then the input is pushed
AddAddress ==
    /\ pc = "gui"
    /\ Len(app.settings.ip_addresses) < MaxAddresses
    /\ LET cleared == [app EXCEPT !.address_input = ""] IN
       app' = [cleared EXCEPT !.settings.ip_addresses = Append(@, cleared.address_input)]
    /\ lastMessage' = "AddAddress"
    /\ UNCHANGED <<client, main_state, parse>>

\* Message::AddressInputChanged
AddressInputChanged ==
    /\ pc = "gui"
    /\ \E text \in AddressTexts : app' = [app EXCEPT !.address_input = text]
    /\ lastMessage' = "AddressInputChanged"
    /\ UNCHANGED <<client, main_state, parse>>

\* Message::AppPortChanged
AppPortChanged ==
    /\ pc = "gui"
    /\ \E port \in Ports : app' = [app EXCEPT !.settings.port = Some(port)]
    /\ lastMessage' = "AppPortChanged"
    /\ UNCHANGED <<client, main_state, parse>>

\* Message::SaveSettings: save() answers Ok or Err
SaveSettings ==
    /\ pc = "gui"
    /\ \E saved \in BOOLEAN :
          app' = IF saved
                 THEN [app EXCEPT !.info_message = Some("Saved settings")]
                 ELSE [app EXCEPT !.error_message = Some("Error saving settings"),
                                  !.info_message = None]
    /\ lastMessage' = "SaveSettings"
    /\ UNCHANGED <<client, main_state, parse>>

ResetSettingsToDefault ==
    /\ pc = "gui"
    /\ app' = [app EXCEPT !.settings = DefaultSettings]
    /\ lastMessage' = "ResetSettings"
    /\ UNCHANGED <<client, main_state, parse>>

\* Message::ResetSettings
ResetSettings ==
    /\ pc = "gui"
    /\ app' = [app EXCEPT !.settings = app.initial_settings]
    /\ lastMessage' = "ResetSettings"
    /\ UNCHANGED <<client, main_state, parse>>

\* App::update
GuiNext ==
    \/ Connect
    \/ ReloadMidiDevices
    \/ SettingsChanged
    \/ RelayPortChanged
    \/ RemoveAddress
    \/ AddAddress
    \/ AddressInputChanged
    \/ AppPortChanged
    \/ SaveSettings
    \/ ResetSettings

GuiSpec == GuiInit /\ [][GuiNext]_vars

(***************************************************************************)
(* main: one role per run                                                  *)
(***************************************************************************)
\* the seed main gives the relay loop
MainRelaySeed == 42

\* the seed main gives start_client for the local key
MainLocalSeed == 44

\* the seed main gives start_client for the remote peer
MainRemoteSeed == 42

\* the flags main reads
Flags == [as_relay : BOOLEAN, cli : BOOLEAN, gui : BOOLEAN]

\* the identity the relay loop runs under: deriveIdentity of its seed
RelayIdentity(seed) == PeerIdFrom(generate_ed25519(seed))

MainRoleConflictFirst(a) ==
    IF a.cli /\ a.gui THEN "abort"
    ELSE IF a.as_relay THEN "relay"
    ELSE IF a.gui THEN "gui"
    ELSE "client"

\* the branch main takes: lines 11, 20, 24 and 30
MainRole(a) ==
    IF a.as_relay THEN "relay"
    ELSE IF a.cli /\ a.gui THEN "abort"
    ELSE IF a.gui THEN "gui"
    ELSE "client"

\* main after get_program_config and apply_default_values
MainInit ==
    /\ pc = "main"
    /\ program_args \in Flags
    /\ started = {}
    /\ mode = "none"
    /\ secret_key_seed = 0
    /\ remote_peer_id_u8 = 0
    /\ relay_address_str = ""
    /\ relay_port = 0
    /\ use_ipv6 = FALSE
    /\ relay_address = NoAddr
    /\ remote_peer_id = NoPeerId
    /\ local_peer_id = NoPeerId
    /\ learned_observed_addr = FALSE
    /\ told_relay_observed_addr = FALSE
    /\ requests = <<>>
    /\ external_addresses = {}
    /\ conn = [p \in Peers |-> "none"]
    /\ reservation = "none"
    /\ lastEvent = NoEvent
    /\ lastPhase = "none"
    /\ lastPrinted = FALSE
    /\ sentTo = {}
    /\ receivedFrom = {}
    /\ app = NoApp
    /\ lastMessage = "none"
    /\ mode_input = <<>>
    /\ mode_result = NoResult

\* lines 11-13: the relay loop is entered
MainRelay ==
    /\ pc = "main"
    /\ MainRole(program_args) = "relay"
    /\ started' = started \cup {"relay"}
    /\ pc' = "relay_loop"
    /\ UNCHANGED <<args, locals, flags, requests, external_addresses, net, history,
                   app, lastMessage, program_args, parse>>

\* lines 13-17: start_relay_loop answers Ok or Err, and main returns
RelayLoopEnds ==
    /\ pc = "relay_loop"
    /\ pc' = "returned"
    /\ UNCHANGED <<args, locals, flags, requests, external_addresses, net, history,
                   aux>>

\* lines 20-22
MainAbort ==
    /\ pc = "main"
    /\ MainRole(program_args) = "abort"
    /\ pc' = "panicked"
    /\ UNCHANGED <<args, locals, flags, requests, external_addresses, net, history,
                   aux>>

\* lines 24-26: run_app builds the App from the settings
MainGui ==
    /\ pc = "main"
    /\ MainRole(program_args) = "gui"
    /\ started' = started \cup {"gui"}
    /\ pc' = "gui"
    /\ \E st \in StartSettings, devices \in MidiLists :
          app' = [initial_settings |-> st, settings |-> st, error_message |-> None,
                  info_message |-> None, midi_devices |-> devices, address_input |-> ""]
    /\ UNCHANGED <<args, locals, flags, requests, external_addresses, net, history,
                   lastMessage, program_args, parse>>

\* lines 26-29: run_app answers Ok or Err, the App is dropped, and main returns
GuiReturns ==
    /\ pc = "gui"
    /\ program_args # NoArgs
    /\ pc' = "returned"
    /\ app' = NoApp
    /\ lastMessage' = "none"
    /\ UNCHANGED <<args, locals, flags, requests, external_addresses, net, history,
                   main_state, parse>>

\* lines 30-39: start_client is called
MainCli ==
    /\ pc = "main"
    /\ MainRole(program_args) = "client"
    /\ started' = started \cup {"client"}
    /\ pc' = "start"
    /\ mode' = Dial
    /\ secret_key_seed' = MainLocalSeed
    /\ relay_address_str' \in Hosts
    /\ relay_port' = RELAY_PORT
    /\ remote_peer_id_u8' = MainRemoteSeed
    /\ use_ipv6' = USE_IPV6
    /\ UNCHANGED <<locals, flags, requests, external_addresses, net, history,
                   app, lastMessage, program_args, parse>>

MainNext ==
    \/ MainRelay
    \/ RelayLoopEnds
    \/ MainAbort
    \/ MainGui
    \/ GuiReturns
    \/ MainCli
    \/ Next
    \/ GuiNext

MainSpec == MainInit /\ [][MainNext]_vars

(***************************************************************************)
(* Mode::from_str                                                          *)
(*                                                                         *)
(* A &str is the sequence of its characters; the match compares it with    *)
(* the literals character by character.                                    *)
(***************************************************************************)
DialStr == <<"d", "i", "a", "l">>

ListenStr == <<"l", "i", "s", "t", "e", "n">>

\* the words the inputs are made of
Words == {DialStr, ListenStr, <<"d", "i", "a">>, <<"r", "e", "l", "a", "y">>, <<>>}

UpperOf ==
    [c \in {"a", "d", "e", "i", "l", "n", "r", "s", "t", "y"} |->
        CASE c = "a" -> "A" [] c = "d" -> "D" [] c = "e" -> "E" [] c = "i" -> "I"
          [] c = "l" -> "L" [] c = "n" -> "N" [] c = "r" -> "R" [] c = "s" -> "S"
          [] c = "t" -> "T" [] c = "y" -> "Y"]

\* the word with the letters at the positions of up in upper case
Cased(word, up) ==
    [i \in 1..Len(word) |-> IF i \in up THEN UpperOf[word[i]] ELSE word[i]]

Pad(n) == [i \in 1..n |-> " "]

\* the strings from_str is given
ModeInputs ==
    {Pad(lead) \o Cased(word, up) \o Pad(trail) :
        lead \in 0..MaxPadding, trail \in 0..MaxPadding,
        word \in Words, up \in SUBSET (1..6)}

Ok(value) == [ok |-> TRUE, value |-> value]

Err(text) == [ok |-> FALSE, value |-> text]

\* char::to_ascii_lowercase
Lower(c) ==
    IF \E l \in DOMAIN UpperOf : UpperOf[l] = c
    THEN CHOOSE l \in DOMAIN UpperOf : UpperOf[l] = c
    ELSE c

RECURSIVE Trim(_)
\* str::trim
Trim(str) ==
    IF str = <<>> THEN str
    ELSE IF Head(str) = " " THEN Trim(Tail(str))
    ELSE IF str[Len(str)] = " " THEN Trim(SubSeq(str, 1, Len(str) - 1))
    ELSE str

from_str_lenient(str) ==
    LET word == [i \in 1..Len(Trim(str)) |-> Lower(Trim(str)[i])] IN
    IF word = DialStr THEN Ok(Dial)
    ELSE IF word = ListenStr THEN Ok(Listen)
    ELSE Err("Expected either 'dial' or 'listen'")

\* Mode::from_str, lines 32-38
from_str(str) ==
    IF str = DialStr THEN Ok(Dial)
    ELSE IF str = ListenStr THEN Ok(Listen)
    ELSE Err("Expected either 'dial' or 'listen'")

ModeInit ==
    /\ pc = "parse"
    /\ mode_input \in ModeInputs
    /\ mode_result = NoResult
    /\ program_args = NoArgs
    /\ started = {}
    /\ ClientUnused
    /\ app = NoApp
    /\ lastMessage = "none"

\* a call of Mode::from_str
FromStr ==
    /\ pc = "parse"
    /\ mode_result' = from_str(mode_input)
    /\ pc' = "parsed"
    /\ UNCHANGED <<args, locals, flags, requests, external_addresses, net, history,
                   app, lastMessage, main_state, mode_input>>

ModeSpec == ModeInit /\ [][FromStr]_vars

\* the swarm announces a dial it was asked for without any help of the network
DialAnnounced ==
    /\ SteadyEvent
    /\ lastEvent' = Event("Dialing", TargetPeer, NoAddr)

\* the swarm fails a circuit dial the relay refused, or whose relay connection is gone
DialGivenUp ==
    /\ SteadyEvent
    /\ conn[RelayPeer] \notin Open \/ conn[TargetPeer] = "circuit_refused"
    /\ lastEvent' = Event("OutgoingConnectionError", TargetPeer, NoAddr)

\* the loops keep polling the swarm and the swarm does what it can do alone;
\* nothing obliges the relay or the target to answer
FairSpec == Spec /\ WF_vars(Next) /\ WF_vars(DialAnnounced) /\ WF_vars(DialGivenUp)

(***************************************************************************)
(* Properties                                                              *)
(***************************************************************************)
IsCircuit(addr) == \E j \in 1..Len(addr) : addr[j].proto = "p2p-circuit"

\* a circuit dial or a reservation request has been issued
CircuitRequested == \E i \in 1..Len(requests) : IsCircuit(requests[i].addr)

BeforeRelayDial == {"start", "build", "listen_quic", "listen_tcp", "bind", "dial_relay"}

\* C1: the round-trip loop is left as complete only when it has handled both
\* an identify Sent and an identify Received event; with one of the two kinds
\* missing the client is still in the loop (or has aborted) and has issued
\* neither the circuit dial nor the reservation request; a flag, once set,
\* is never cleared.
C1_BothConditions ==
    /\ [](/\ (pc \in {"mode", "steady"} \/ CircuitRequested) =>
                (sentTo # {} /\ receivedFrom # {})
          /\ (lastPhase = "roundtrip" /\ (sentTo = {} \/ receivedFrom = {})) =>
                (pc \in {"roundtrip", "panicked"} /\ ~CircuitRequested)
          /\ told_relay_observed_addr <=> (sentTo # {})
          /\ learned_observed_addr <=> (receivedFrom # {}))
    /\ [][/\ told_relay_observed_addr => told_relay_observed_addr'
          /\ learned_observed_addr => learned_observed_addr']_vars

\* C1 witness: the handshake completes on the identify Sent event, the
\* identify Received event having come first
C1_Witness ==
    /\ pc = "mode"
    /\ lastEvent.kind = "IdentifySent"
    /\ sentTo # {}
    /\ receivedFrom # {}

\* C2: the requests are issued in a fixed order: the two local listen
\* requests, then, after the bind wait has ended, one direct dial of the
\* relay, then, with both handshake flags set, one circuit dial or
\* reservation request; the relay is never dialed directly twice.
C2_RequestOrder ==
    /\ Len(requests) <= 4
    /\ \A i \in 1..Len(requests) :
          /\ i <= 2 => (requests[i].op = "listen_on" /\ ~IsCircuit(requests[i].addr))
          /\ i = 3 => requests[i] = Request("dial", relay_address)
          /\ i = 4 => IsCircuit(requests[i].addr)
    /\ (pc \in BeforeRelayDial \/ (pc = "panicked" /\ lastPhase \in {"none", "bind"})) =>
          \A i \in 1..Len(requests) : requests[i].op # "dial"
    /\ pc \in {"bind", "dial_relay"} => Len(requests) = 2
    /\ CircuitRequested => (learned_observed_addr /\ told_relay_observed_addr)
    /\ Cardinality({i \in 1..Len(requests) : requests[i] = Request("dial", relay_address)}) <= 1

\* C2 witness: all four requests have been issued
C2_Witness ==
    /\ Len(requests) = 4
    /\ pc = "steady"
    /\ requests[3].op = "dial"

\* C3: the relay is the peer behind both handshake conditions: no identify
\* event of another peer is ever counted by the round-trip loop, and a
\* completed handshake has counted the relay's Sent and the relay's Received.
C3_RelayBehindBoth ==
    /\ sentTo \subseteq {RelayPeer}
    /\ receivedFrom \subseteq {RelayPeer}
    /\ pc \in {"mode", "steady"} => (sentTo = {RelayPeer} /\ receivedFrom = {RelayPeer})
    /\ (external_addresses # {}) => (RelayPeer \in receivedFrom)

\* C3 witness: the handshake has completed with the relay's two events and
\* the address the relay observed is an external address
C3_Witness ==
    /\ pc = "mode"
    /\ sentTo = {RelayPeer}
    /\ receivedFrom = {RelayPeer}
    /\ lastEvent.kind = "IdentifyReceived"
    /\ lastEvent.addr \in external_addresses

\* C4: after the handshake the client issues exactly the request of its mode,
\* once: in Dial mode a dial of relay address + p2p-circuit + p2p(identity of
\* the remote seed), in Listen mode a listen on relay address + p2p-circuit;
\* the relay address is the one dialed directly before.
C4_ModeRequest ==
    /\ \A i \in 1..Len(requests) :
          IsCircuit(requests[i].addr) =>
             /\ i = 4
             /\ mode = Dial =>
                   requests[i] =
                      Request("dial",
                              requests[3].addr \o
                                 <<P2pCircuit, P2p(PeerIdFrom(generate_ed25519(remote_peer_id_u8)))>>)
             /\ mode = Listen =>
                   requests[i] = Request("listen_on", requests[3].addr \o <<P2pCircuit>>)
    /\ (pc = "steady" \/ lastPhase = "steady") => Len(requests) = 4
    /\ mode = Dial => reservation = "none"
    /\ mode = Listen => conn[TargetPeer] = "none"

\* C4 witness (Dial mode): the circuit dial has been issued
C4_Witness ==
    /\ pc = "steady"
    /\ mode = Dial
    /\ requests[4].op = "dial"
    /\ secret_key_seed # remote_peer_id_u8

\* the events the round-trip loop lets pass
RoundTripAccepted ==
    {"NewListenAddr", "Dialing", "ConnectionEstablished", "IdentifySent",
     "IdentifyReceived"} \cup PingEvents

\* C5: in the round-trip loop every event outside the accepted set aborts the
\* process; after it the handshake is never complete and neither the circuit
\* dial nor the reservation request is issued.
C5_OtherEventsAbort ==
    (lastPhase = "roundtrip" /\ lastEvent.kind \notin RoundTripAccepted) =>
        (pc = "panicked" /\ ~CircuitRequested /\ Len(requests) = 3)

\* C5 witness: the relay connection closed during the round-trip loop
C5_Witness ==
    /\ lastPhase = "roundtrip"
    /\ lastEvent.kind = "ConnectionClosed"
    /\ pc = "panicked"

\* C6 (as claimed): an outgoing connection error never aborts the client, in
\* whichever loop it arrives.
C6_DialFailureNotFatal ==
    lastEvent.kind = "OutgoingConnectionError" => pc # "panicked"

\* C7 (as claimed): no event received during the bind wait aborts the process.
C7_BindNeverAborts ==
    lastPhase = "bind" => pc # "panicked"

\* C8 (as claimed): in Listen mode a failed reservation request is reported
\* and ends Listen mode: the client does not stay in the steady-state loop.
C8_ReservationFailureFatal ==
    (mode = Listen /\ lastPhase = "steady" /\ lastEvent.kind = "ReservationReqFailed") =>
        (lastPrinted /\ pc # "steady")

\* C9: once the steady-state loop is entered it is never left.
C9_SteadyForever == [][pc = "steady" => pc' = "steady"]_vars

\* C9 witness: the steady-state loop has handled a connection error and goes on
C9_Witness ==
    /\ pc = "steady"
    /\ lastPhase = "steady"
    /\ lastEvent.kind \in {"OutgoingConnectionError", "ConnectionClosed", "ListenerError"}

\* the client has seen the outcome of the circuit dial
TargetOutcomeSeen == conn[TargetPeer] \in Open \cup {"failed", "closed"}

\* C10 (as claimed): in Dial mode the circuit dial eventually produces a
\* connection-established or an outgoing-connection-error event for the target.
C10_DialNeverHangs ==
    (/\ pc = "steady"
     /\ mode = Dial
     /\ conn[RelayPeer] \in Open
     /\ learned_observed_addr
     /\ told_relay_observed_addr
     /\ conn[TargetPeer] = "requested") ~> TargetOutcomeSeen

\* C11 (as claimed): in Listen mode with no reachable relay the client does
\* not terminate before the error event of its reservation request is reported.
C11_ReservationErrorBeforeEnd ==
    (mode = Listen /\ conn[RelayPeer] = "failed" /\ pc = "panicked") =>
        reservation = "failed"

\* a step of the steady-state loop that takes a failed hole punch with peer p
DcutrFailedStep(p) ==
    /\ pc = "steady"
    /\ conn[p] = "upgrading"
    /\ lastEvent' = Event("DcutrFailed", p, NoAddr)

\* C12: a hole-punch failure taken in the steady state leaves the relayed
\* connection open, makes the client issue no request and change none of its
\* state, and the loop goes on.
C12_HolePunchFailureKeepsCircuit ==
    [][\A p \in Peers :
          DcutrFailedStep(p) =>
             /\ pc' = "steady"
             /\ conn'[p] \in Open
             /\ \A q \in Peers \ {p} : conn'[q] = conn[q]
             /\ UNCHANGED <<args, locals, flags, requests, external_addresses,
                            reservation, sentTo, receivedFrom>>]_vars

\* C12 witness: the hole punch with the dialed target failed and the loop goes on
C12_Witness ==
    /\ pc = "steady"
    /\ lastEvent = Event("DcutrFailed", TargetPeer, NoAddr)
    /\ conn[TargetPeer] = "relayed_only"

\* C14: the set of external addresses only grows, and only by the observed
\* address of an identify Received event being handled.
C14_ExternalAddressesGrow ==
    [][/\ external_addresses \subseteq external_addresses'
       /\ external_addresses' # external_addresses =>
             /\ lastEvent'.kind = "IdentifyReceived"
             /\ external_addresses' = external_addresses \cup {lastEvent'.addr}]_vars

\* C14 witness: two identify Received events have added two addresses
C14_Witness ==
    /\ Cardinality(external_addresses) = 2
    /\ lastEvent.kind = "IdentifyReceived"
    /\ lastPhase = "roundtrip"

\* C15 (as claimed): with the relay given as a host name the client does not
\* fail before it has dialed the relay.
C15_HostNameReachesDial ==
    (HostFamily(relay_address_str) = "dns" /\ pc = "panicked") =>
        \E i \in 1..Len(requests) : requests[i].op = "dial"

\* C18: a ping event of any outcome, taken by the round-trip loop or by the
\* steady-state loop, changes no flag, no connection and no request, and the
\* loop goes on.
C18_PingChangesNothing ==
    [][(pc \in {"roundtrip", "steady"} /\ lastEvent'.kind \in PingEvents) =>
          /\ pc' = pc
          /\ lastPhase' = pc
          /\ UNCHANGED <<args, locals, flags, requests, external_addresses, net,
                         sentTo, receivedFrom>>]_vars

\* C18 witness: the round-trip loop has taken a ping timeout and goes on
C18_Witness ==
    /\ pc = "roundtrip"
    /\ lastPhase = "roundtrip"
    /\ lastEvent.kind = "PingTimeout"

\* C19: a reservation is requested, and a reservation-accepted event taken,
\* in Listen mode only; the assertion of the steady-state loop never fails.
C19_AssertionHolds ==
    /\ lastEvent.kind = "ReservationReqAccepted" => mode = Listen
    /\ reservation # "none" => mode = Listen
    /\ ~(pc = "panicked" /\ lastPhase = "steady")

\* C19 witness: in Listen mode the relay accepted the reservation
C19_Witness ==
    /\ mode = Listen
    /\ pc = "steady"
    /\ lastEvent.kind = "ReservationReqAccepted"
    /\ reservation = "accepted"

\* C17: two different seed bytes give different key material and different
\* identities.
C17_NoCollision ==
    (pc = "listen_quic" /\ secret_key_seed # remote_peer_id_u8) =>
        /\ generate_ed25519(secret_key_seed) # generate_ed25519(remote_peer_id_u8)
        /\ local_peer_id # remote_peer_id
        /\ local_peer_id = PeerIdFrom(generate_ed25519(secret_key_seed))
        /\ remote_peer_id = PeerIdFrom(generate_ed25519(remote_peer_id_u8))

\* C17 witness: the identities of two seeds that differ in their top bit only
C17_Witness ==
    /\ pc = "listen_quic"
    /\ secret_key_seed = 1
    /\ remote_peer_id_u8 = 129
    /\ local_peer_id # remote_peer_id

\* C20 (as claimed): AddAddress appends the text held in the address input to
\* the list of device addresses and leaves the input empty.
C20_AddAddressAppendsInput ==
    [][lastMessage' = "AddAddress" =>
          /\ app'.settings.ip_addresses = Append(app.settings.ip_addresses, app.address_input)
          /\ app'.address_input = ""]_vars

\* C21 (as claimed): on the CLI path every circuit dial the client asks the
\* relay for targets a peer identity that is neither the client's own identity
\* nor the identity the relay runs under.
C21_CircuitTargetIsThirdParty ==
    started = {"client"} =>
       \A i \in 1..Len(requests) :
          (requests[i].op = "dial" /\ IsCircuit(requests[i].addr)) =>
             LET target == requests[i].addr[Len(requests[i].addr)].peer IN
             /\ target # local_peer_id
             /\ target # RelayIdentity(MainRelaySeed)

\* C22: main starts at most one role, and which one is decided by the flags
\* in this order: with as_relay set, the relay loop alone, whatever cli and
\* gui are, and main returns after it; otherwise, with cli and gui both set,
\* main aborts with nothing started; otherwise the GUI if gui is set, and the
\* client in Dial mode if not.  The client and the GUI are never both started.
C22_OneRolePerRun ==
    /\ Cardinality(started) <= 1
    /\ pc = "main" => started = {}
    /\ pc # "main" =>
          /\ program_args.as_relay =>
                /\ started = {"relay"}
                /\ pc \in {"relay_loop", "returned"}
                /\ app = NoApp
                /\ requests = <<>>
          /\ (~program_args.as_relay /\ program_args.cli /\ program_args.gui) =>
                /\ started = {}
                /\ pc = "panicked"
                /\ app = NoApp
                /\ requests = <<>>
          /\ (~program_args.as_relay /\ ~program_args.cli /\ program_args.gui) =>
                /\ started = {"gui"}
                /\ pc \in {"gui", "returned"}
                /\ mode = "none"
                /\ requests = <<>>
          /\ (~program_args.as_relay /\ ~program_args.gui) =>
                /\ started = {"client"}
                /\ mode = Dial
                /\ app = NoApp
                /\ pc # "returned"

C22_Witness ==
    /\ program_args = [as_relay |-> TRUE, cli |-> TRUE, gui |-> TRUE]
    /\ pc = "returned"
    /\ started = {"relay"}

\* C23: no message changes the initial settings the App was built with;
\* ResetSettings makes the settings equal to them and changes nothing else,
\* whatever messages came before; and a ResetSettings right after a
\* ResetSettings leaves the App as it is.
C23_ResetRestoresStart ==
    [][pc = "gui" =>
          /\ app'.initial_settings = app.initial_settings
          /\ lastMessage' = "ResetSettings" =>
                app' = [app EXCEPT !.settings = app.initial_settings]
          /\ (lastMessage = "ResetSettings" /\ lastMessage' = "ResetSettings") =>
                app' = app]_vars

C23_Witness ==
    /\ lastMessage = "ResetSettings"
    /\ app.settings = app.initial_settings
    /\ app.initial_settings # DefaultSettings
    /\ app.info_message # None
    /\ app.address_input # ""

\* C24: Mode::from_str answers Dial for the string "dial" and for no other,
\* Listen for the string "listen" and for no other, and an error value for
\* every other string, a word in another letter case or with blanks around it
\* included; it answers for every string and never aborts.
C24_ModeParsingExact ==
    /\ pc \in {"parse", "parsed"}
    /\ pc = "parsed" =>
          /\ mode_result = Ok(Dial) <=> mode_input = DialStr
          /\ mode_result = Ok(Listen) <=> mode_input = ListenStr
          /\ mode_input \notin {DialStr, ListenStr} =>
                (mode_result.ok = FALSE /\ mode_result.value \notin Mode)
          /\ mode_result.ok = TRUE => mode_result.value \in Mode

C24_Witness ==
    /\ pc = "parsed"
    /\ mode_input = <<"D", "I", "A", "L", " ">>
    /\ mode_result.ok = FALSE

====
